---- MODULE Spec2Model ----
(***************************************************************************)
(* NUcore order scraper: the run of nucore_client.fetch_new_orders (login  *)
(* flow, table location, row extraction, release of the browser) and of    *)
(* main.run, as a state machine.                                           *)
(*                                                                         *)
(* Texts (header cells, body cells) are sequences of one-character         *)
(* strings, so that strip, lower, substring, startswith and split are      *)
(* computed as Python computes them.  Column indices are 0-based as in the  *)
(* source; Python's x[k] is written At(x, k).                              *)
(***************************************************************************)
EXTENDS Integers, Sequences, FiniteSets, TLC

(***************************************************************************)
(* Bounds of the model.                                                    *)
(***************************************************************************)
\* tables on the page / body rows read, when the extractor alone is explored
MaxTables == 2
MaxRows == 2
\* the same, when the whole run (login, navigation, extraction) is explored
MaxRunTables == 1
MaxRunRows == 1

(***************************************************************************)
(* Python str operations on texts.                                         *)
(***************************************************************************)
UpperToLower ==
  ("A" :> "a") @@ ("D" :> "d") @@ ("E" :> "e") @@ ("N" :> "n") @@
  ("O" :> "o") @@ ("P" :> "p") @@ ("S" :> "s") @@ ("T" :> "t") @@
  ("U" :> "u") @@ ("W" :> "w") @@ ("C" :> "c") @@ ("R" :> "r")

IsSpace(c) == c = " "

LowerChar(c) == IF c \in DOMAIN UpperToLower THEN UpperToLower[c] ELSE c

\* str.lower()
Lower(s) == [k \in 1..Len(s) |-> LowerChar(s[k])]

SetMin(S) == CHOOSE x \in S : \A y \in S : x <= y
SetMax(S) == CHOOSE x \in S : \A y \in S : x >= y

\* str.strip(): leading and trailing whitespace removed
Strip(s) ==
  LET ink == {k \in 1..Len(s) : ~IsSpace(s[k])}
  IN IF ink = {} THEN <<>> ELSE SubSeq(s, SetMin(ink), SetMax(ink))

\* w in h  (substring test)
Contains(w, h) ==
  \E k \in 0..(Len(h) - Len(w)) : SubSeq(h, k + 1, k + Len(w)) = w

\* s.startswith(p)
StartsWith(s, p) == Len(s) >= Len(p) /\ SubSeq(s, 1, Len(p)) = p

\* s.split(): the maximal runs of non-whitespace characters, in order
RECURSIVE Split(_)
Split(s) ==
  LET ink == {k \in 1..Len(s) : ~IsSpace(s[k])}
  IN IF ink = {} THEN <<>>
     ELSE LET b == SetMin(ink)
              sp == {k \in b..Len(s) : IsSpace(s[k])}
              e == IF sp = {} THEN Len(s) ELSE SetMin(sp) - 1
          IN <<SubSeq(s, b, e)>> \o Split(SubSeq(s, e + 1, Len(s)))

\* Python x[k] on a list, k >= 0: defined when k < len(x)
InRange(x, k) == k >= 0 /\ k < Len(x)
At(x, k) == x[k + 1]

(***************************************************************************)
(* Literals of the source.                                                 *)
(***************************************************************************)
W_order == <<"o", "r", "d", "e", "r">>
W_order_detail == <<"o", "r", "d", "e", "r", " ", "d", "e", "t", "a", "i", "l">>
W_product == <<"p", "r", "o", "d", "u", "c", "t">>
W_status == <<"s", "t", "a", "t", "u", "s">>
wanted_headers == <<W_order, W_order_detail, W_product, W_status>>
P_new == <<"n", "e", "w">>

\* col_idx's "return None"
None == -1

(***************************************************************************)
(* The pages the portal may serve: header rows and body rows.              *)
(***************************************************************************)
H_Order == <<"O", "r", "d", "e", "r">>
H_OrderDetail == <<"O", "r", "d", "e", "r", " ", "D", "e", "t", "a", "i", "l">>
H_Product == <<"P", "r", "o", "d", "u", "c", "t">>
H_Status == <<"S", "t", "a", "t", "u", "s">>
H_STATUS == <<" ", "S", "T", "A", "T", "U", "S", " ">>
H_OrderStatus == <<"O", "r", "d", "e", "r", " ", "S", "t", "a", "t", "u", "s">>

HR_canon == <<H_Order, H_OrderDetail, H_Product, H_Status>>
HR_swapped == <<H_OrderDetail, H_Order, H_Product, H_Status>>
HR_perm == <<H_STATUS, H_Product, H_Order, H_OrderDetail>>
HR_dup == <<H_Status, H_Order, H_OrderDetail, H_Product, H_Status>>
HR_multi == <<H_OrderStatus, H_OrderDetail, H_Product>>
HR_left == <<H_Order, H_OrderDetail>>
HR_right == <<H_Product, H_Status>>

HeaderPool ==
  {HR_canon, HR_swapped, HR_perm, HR_dup, HR_multi, HR_left, HR_right}

C_1001x == <<"1", "0", "0", "1", " ", "(", "x", ")">>
C_2001y == <<" ", "2", "0", "0", "1", " ", "(", "y", ")">>
C_1002 == <<"1", "0", "0", "2">>
C_2002 == <<"2", "0", "0", "2">>
C_WA == <<"W", " ", "A", " ">>
C_W == <<"W">>
C_New == <<"N", "e", "w">>
C_NEWpad == <<" ", "N", "E", "W", " ", "o", "r", "d", "e", "r">>
C_Complete == <<"C", "o", "m", "p", "l", "e", "t", "e">>
C_blank == <<" ">>

R_new == <<C_1001x, C_2001y, C_WA, C_New>>
R_done == <<C_1002, C_2002, C_W, C_Complete>>
R_nodetail == <<C_1001x, C_blank, C_W, C_NEWpad>>
R_five == <<C_New, C_1001x, C_2002, C_W, C_Complete>>
R_short == <<C_1002>>
R_newshort == <<C_New>>
R_empty == <<>>

RowPool ==
  {R_new, R_done, R_nodetail, R_five, R_short, R_newshort, R_empty}

\* the element that holds a table: tables with the same parent are siblings
Containers == {"body", "div"}

TablePool == [parent : Containers, ths : HeaderPool]

SeqsUpTo(S, m) == UNION {[1..k -> S] : k \in 0..m}

\* the pages of at most m tables; whichever element holds the first table
\* is called the body
Pages(m) == {p \in SeqsUpTo(TablePool, m) : Len(p) > 0 => p[1].parent = "body"}

(***************************************************************************)
(* The DOM queries of fetch_new_orders.                                    *)
(***************************************************************************)
\* position of table k among the <table> children of its parent (1-based)
SiblingIndex(tabs, k) ==
  Cardinality({j \in 1..k : tabs[j].parent = tabs[k].parent})

\* the tables that the CSS selector table:nth-of-type(m) matches
NthOfType(tabs, m) == {k \in 1..Len(tabs) : SiblingIndex(tabs, k) = m}

RECURSIVE ConcatThs(_, _, _)
ConcatThs(tabs, S, k) ==
  IF k > Len(tabs) THEN <<>>
  ELSE (IF k \in S THEN tabs[k].ths ELSE <<>>) \o ConcatThs(tabs, S, k + 1)

\* page.locator("table:nth-of-type(m) thead tr th").all_inner_texts():
\* the header cells of every matching table, in document order
HeaderTexts(tabs, m) == ConcatThs(tabs, NthOfType(tabs, m), 1)

\* all(any(w in h for h in hdrs) for w in wanted_headers)
HeaderPredicate(ths) ==
  LET hdrs == [k \in 1..Len(ths) |-> Lower(Strip(ths[k]))]
  IN \A a \in 1..Len(wanted_headers) :
       \E b \in 1..Len(hdrs) : Contains(wanted_headers[a], hdrs[b])

\* a Python dict as the sequence of its items in insertion order
DictHas(d, key) == \E a \in 1..Len(d) : d[a].k = key

\* d[key] = val: a new key is appended, an existing key keeps its place
DictSet(d, key, val) ==
  IF DictHas(d, key)
  THEN [a \in 1..Len(d) |-> IF d[a].k = key THEN [k |-> key, v |-> val] ELSE d[a]]
  ELSE Append(d, [k |-> key, v |-> val])

\* a key of header_map that keeps the letter case of the cell
HeaderKeyCased(h) == Strip(h)

\* the key of header_map for header cell h: h.strip().lower()
HeaderKey(h) == Lower(Strip(h))

RECURSIVE HeaderMapFrom(_, _, _)
HeaderMapFrom(ths, idx, d) ==
  IF idx >= Len(ths) THEN d
  ELSE HeaderMapFrom(ths, idx + 1, DictSet(d, HeaderKey(At(ths, idx)), idx))

\* {h.strip().lower(): idx for idx, h in enumerate(ths)}
BuildHeaderMap(ths) == HeaderMapFrom(ths, 0, <<>>)

\* col_idx(name): the value of the first item whose key contains the name
col_idx(hm, name) ==
  LET lname == Lower(name)
      hits == {a \in 1..Len(hm) : Contains(lname, hm[a].k)}
  IN IF hits = {} THEN None ELSE hm[SetMin(hits)].v

\* s.strip().split()[0] raises IndexError when there is no token
HasToken(s) == Len(Split(Strip(s))) > 0
FirstToken(s) == Split(Strip(s))[1]

\* a status test that compares the letters as they are
IsNewStatusCased(status_text) == StartsWith(status_text, P_new)

\* status_text.lower().startswith("new")
IsNewStatus(status_text) == StartsWith(Lower(status_text), P_new)

\* the body of the row loop for one row: what it does with the cells tds
\* under the column indices io, id, ip, is (order, order detail, product,
\* status): "skip", "emit" a record, or "raise" IndexError
RowStep(cells, io, id, ip, is) ==
  IF Len(cells) = 0 THEN [kind |-> "skip"]
  ELSE IF ~InRange(cells, is) THEN [kind |-> "raise"]
  ELSE LET status_text == Strip(At(cells, is))
       IN IF ~IsNewStatus(status_text) THEN [kind |-> "skip"]
          ELSE IF ~(InRange(cells, io) /\ InRange(cells, id)) THEN [kind |-> "raise"]
          ELSE IF ~InRange(cells, ip) THEN [kind |-> "raise"]
          ELSE LET tokens == HasToken(At(cells, io)) /\ HasToken(At(cells, id))
               IN [kind |-> "emit",
                   rec |-> [order |-> IF tokens THEN FirstToken(At(cells, io))
                                                ELSE Strip(At(cells, io)),
                            order_detail |-> IF tokens THEN FirstToken(At(cells, id))
                                                       ELSE Strip(At(cells, id)),
                            product |-> Strip(At(cells, ip)),
                            status |-> status_text]]

(***************************************************************************)
(* URLs.  The code only tests a URL for equality with the blank start page  *)
(* and for three substrings; a URL is modelled by the substrings it holds. *)
(***************************************************************************)
UrlParts ==
  ("about:blank" :> {}) @@
  ("nucore/users/sign_in" :> {"users/sign_in"}) @@
  ("login.microsoftonline.com/oauth2" :> {"login.microsoftonline.com"}) @@
  ("nucore/facilities/nufab/orders" :> {"facilities/nufab/orders"})

\* part in url
UrlContains(u, part) == part \in UrlParts[u]

\* where a navigation, a click or a form submission may land
Landings == DOMAIN UrlParts \ {"about:blank"}

(***************************************************************************)
(* State.                                                                  *)
(***************************************************************************)
VARIABLES
  entry,        \* "fetch": nucore_client.fetch_new_orders; "main": main.run
  cfg,          \* config.json as read by the run
  lim,          \* bounds of this exploration: tables on a page, rows read
  pc,           \* position of the run
  url,          \* page.url
  driver,       \* the async_playwright() session: "none", "open", "stopped"
  browser,      \* browser process: "none", "open", "closed"
  context,      \* browser context: "none", "open", "closed"
  page,         \* page: "none", "open", "closed"
  handles,      \* fetch_new_orders' locals browser, context, page are bound
  state_file,   \* the storage-state file exists
  aad_done,     \* local of the login flow
  gen_ok,       \* local of the login flow
  trace,        \* what the run has done to the browser, in order
  dumps,        \* labels passed to dump_debug, in order
  outcome,      \* "running", "returned", "raised", "exited"
  exc,          \* the exception in flight or raised, "none" if none
  ret,          \* the list fetch_new_orders returns
  tables,       \* the tables of the page the extractor looks at
  body,         \* the body rows matched by the row selector, in order
  table_count, i, target_idx, header_map,
  idx_order, idx_order_detail, idx_product, idx_status,
  n, tds, rows, \* locals of fetch_new_orders
  store,        \* app.py: the orders file, a dict from key to record
  request,      \* app.py: the request handled last
  http          \* app.py: the status code of the last response, 0 if none

appv == <<store, request, http>>
confv == <<entry, cfg, lim>>
\* what no step of a run changes: its configuration and the local store
runv == <<confv, appv>>
resv == <<driver, browser, context, page, handles>>
logv == <<url, state_file, aad_done, gen_ok>>
extv == <<tables, body, table_count, i, target_idx, header_map,
          idx_order, idx_order_detail, idx_product, idx_status, n, tds, rows>>
endv == <<outcome, exc, ret>>
vars == <<runv, resv, logv, extv, endv, pc, trace, dumps>>

Configs(e) ==
  [creds : BOOLEAN,            \* username and password both non-empty
   use_storage : BOOLEAN,      \* use_storage_state
   persist : BOOLEAN,          \* persist_storage_state_after_login and a path
   debug_dump : IF e = "main" THEN BOOLEAN ELSE {TRUE}]   \* main.run only

ExtractorStart ==
  /\ tables = <<>> /\ body = <<>> /\ table_count = 0 /\ i = 0
  /\ target_idx = None /\ header_map = <<>>
  /\ idx_order = None /\ idx_order_detail = None
  /\ idx_product = None /\ idx_status = None
  /\ n = 0 /\ tds = <<>> /\ rows = <<>>

\* no request handled yet, no orders file
NoRequest == [op |-> "none"]
AppStart == store = <<>> /\ request = NoRequest /\ http = 0

\* a run about to start
Init ==
  /\ AppStart
  /\ entry \in {"fetch", "main"}
  /\ cfg \in Configs(entry)
  /\ lim = [tables |-> MaxRunTables, rows |-> MaxRunRows]
  /\ pc = "start"
  /\ url = "about:blank"
  /\ driver = "none" /\ browser = "none" /\ context = "none" /\ page = "none"
  /\ handles = FALSE
  /\ state_file \in BOOLEAN
  /\ aad_done = FALSE /\ gen_ok = FALSE
  /\ trace = <<>> /\ dumps = <<>>
  /\ outcome = "running" /\ exc = "none" /\ ret = <<>>
  /\ ExtractorStart

\* dump_debug(page, label): the label is handed to the diagnostics sink;
\* a failing screenshot or write is swallowed there
Dump(label) == dumps' = Append(dumps, label)

Did(ev) == trace' = Append(trace, ev)
DidAll(evs) == trace' = trace \o evs

\* an exception leaves the body of the async-with block
RaiseInSession(e) == pc' = "exit_pw" /\ exc' = e /\ UNCHANGED <<outcome, ret>>

(***************************************************************************)
(* login_and_open_orders (nucore_client) and the same steps of main.run.   *)
(***************************************************************************)
\* a run that launches the browser without looking at the credentials
CheckCredentialsSkipped ==
  /\ pc = "start" /\ pc' = "launch"
  /\ UNCHANGED <<runv, resv, logv, extv, endv, trace, dumps>>

\* "if not username or not password": RuntimeError / sys.exit(2)
CheckCredentials ==
  /\ pc = "start"
  /\ IF cfg.creds
     THEN pc' = "launch" /\ UNCHANGED endv
     ELSE IF entry = "fetch"
          THEN pc' = "finally" /\ exc' = "RuntimeError" /\ UNCHANGED <<outcome, ret>>
          ELSE pc' = "done" /\ outcome' = "exited" /\ exc' = "SystemExit2" /\ UNCHANGED ret
  /\ UNCHANGED <<runv, resv, logv, extv, trace, dumps>>

\* async with async_playwright() as p: browser = await p.chromium.launch(...)
LaunchBrowser ==
  /\ pc = "launch"
  /\ driver' = "open"
  /\ \/ /\ browser' = "open" /\ pc' = "new_context"
        /\ Did("launch") /\ UNCHANGED endv
     \/ /\ UNCHANGED <<browser, trace>> /\ RaiseInSession("LaunchError")
  /\ UNCHANGED <<runv, context, page, handles, logv, extv, dumps>>

\* browser.new_context(storage_state=...), context.new_page()
NewContext ==
  /\ pc = "new_context"
  /\ \/ /\ context' = "open" /\ page' = "open" /\ pc' = "stored_goto"
        /\ UNCHANGED endv
     \/ /\ UNCHANGED <<context, page>> /\ RaiseInSession("PlaywrightError")
  /\ UNCHANGED <<runv, driver, browser, handles, logv, extv, trace, dumps>>

\* storage_path if (use_storage and Path(storage_path).exists()) else None
storage_state_arg == cfg.use_storage /\ state_file

\* "if storage_state_arg: await page.goto(target_url, ...)"; a timeout of
\* the wait for network idle is swallowed
StoredStateGoto ==
  /\ pc = "stored_goto"
  /\ IF storage_state_arg
     THEN \/ /\ \E u \in Landings : url' = u
             /\ pc' = "check_auth" /\ Did("stored_goto") /\ UNCHANGED endv
          \/ /\ UNCHANGED <<url, trace>> /\ RaiseInSession("PlaywrightError")
     ELSE pc' = "check_auth" /\ UNCHANGED <<url, trace, endv>>
  /\ UNCHANGED <<runv, resv, state_file, aad_done, gen_ok, extv, dumps>>

\* a test that looks at the login path only
LoginRequiredPathOnly(u) == UrlContains(u, "users/sign_in")

\* if "users/sign_in" in page.url or page.url == "about:blank"
LoginRequired(u) == UrlContains(u, "users/sign_in") \/ u = "about:blank"

CheckAuth ==
  /\ pc = "check_auth"
  /\ pc' = IF LoginRequired(url) THEN "goto_login" ELSE "goto_target"
  /\ UNCHANGED <<runv, resv, logv, extv, endv, trace, dumps>>

\* await page.goto(login_url, wait_until="domcontentloaded")
GotoLogin ==
  /\ pc = "goto_login"
  /\ \/ /\ \E u \in Landings : url' = u
        /\ pc' = "sso" /\ Did("goto_login") /\ UNCHANGED endv
     \/ /\ UNCHANGED <<url, trace>> /\ RaiseInSession("PlaywrightError")
  /\ UNCHANGED <<runv, resv, state_file, aad_done, gen_ok, extv, dumps>>

\* a probe that returns the last visible candidate
last_visible_selector(visible, candidates) ==
  LET hits == {k \in 1..Len(candidates) : candidates[k] \in visible}
  IN IF hits = {} THEN <<>> ELSE <<candidates[SetMax(hits)]>>

\* first_visible_selector(page, candidates, timeout_ms): the candidates are
\* tried in list order, a wait that fails or times out goes on to the next
\* one; visible is the set of selectors whose wait succeeds.  The result
\* is <<sel>>, or <<>> for None.
RECURSIVE first_visible_selector(_, _)
first_visible_selector(visible, candidates) ==
  IF candidates = <<>> THEN <<>>
  ELSE IF Head(candidates) \in visible THEN <<Head(candidates)>>
  ELSE first_visible_selector(visible, Tail(candidates))

SSO_CANDIDATES ==
  <<"a:has-text(NetID)", "button:has-text(NetID)",
    "a:has-text(Single Sign-On)", "button:has-text(Single Sign-On)",
    "a:has-text(Northwestern)", "button:has-text(Northwestern)",
    "a[href*=sso]", "a[href*=shibb]", "a[href*=weblogin]", "a[href*=login]">>

Range(sq) == {sq[k] : k \in 1..Len(sq)}

\* try_click_sso_entry: the first visible candidate is clicked; none
\* visible is a normal outcome; a failing click is not caught
TryClickSsoEntry ==
  /\ pc = "sso"
  /\ \E visible \in SUBSET Range(SSO_CANDIDATES) :
       IF first_visible_selector(visible, SSO_CANDIDATES) = <<>>
       THEN pc' = "aad_check" /\ UNCHANGED <<url, trace, endv>>
       ELSE \/ /\ \E u \in Landings : url' = u
               /\ pc' = "aad_check" /\ Did("sso_click") /\ UNCHANGED endv
            \/ /\ UNCHANGED <<url, trace>> /\ RaiseInSession("PlaywrightError")
  /\ UNCHANGED <<runv, resv, state_file, aad_done, gen_ok, extv, dumps>>

\* aad_done = False; if "login.microsoftonline.com" in page.url: ...
AadApplicable(u) == UrlContains(u, "login.microsoftonline.com")

AadCheck ==
  /\ pc = "aad_check"
  /\ aad_done' = FALSE
  /\ pc' = IF AadApplicable(url) THEN "aad" ELSE "after_aad"
  /\ UNCHANGED <<runv, resv, url, state_file, gen_ok, extv, endv, trace, dumps>>

\* a federated branch whose first failure escapes
MicrosoftAadLoginRaises ==
  /\ pc = "aad"
  /\ DidAll(<<"aad">>) /\ UNCHANGED <<url, aad_done>>
  /\ RaiseInSession("PlaywrightError")
  /\ UNCHANGED <<runv, resv, state_file, gen_ok, extv, dumps>>

\* microsoft_aad_login: every exception is caught and gives False
MicrosoftAadLogin ==
  /\ pc = "aad"
  /\ \/ \* account field not visible: not AAD
        /\ aad_done' = FALSE /\ DidAll(<<"aad">>) /\ UNCHANGED url
     \/ \* username filled, then the click or the wait for the password
        \* field fails
        /\ aad_done' = FALSE /\ DidAll(<<"aad", "aad_fill_user">>)
        /\ \E u \in {url} \cup Landings : url' = u
     \/ \* password filled, the submitting click fails
        /\ aad_done' = FALSE
        /\ DidAll(<<"aad", "aad_fill_user", "aad_fill_password">>)
        /\ \E u \in {url} \cup Landings : url' = u
     \/ \* credentials submitted; a failure in the "stay signed in" dialog
        \* is swallowed; the final wait ends, times out (True either way)
        \* or fails with another error (False)
        \E kmsi \in {<<>>, <<"aad_kmsi_error">>}, wait \in {<<>>, <<"aad_wait_error">>} :
          /\ aad_done' = (wait = <<>>)
          /\ DidAll(<<"aad", "aad_fill_user", "aad_fill_password", "aad_submit">>
                    \o kmsi \o wait)
          /\ \E u \in Landings : url' = u
  /\ pc' = "after_aad"
  /\ UNCHANGED <<runv, resv, state_file, gen_ok, extv, endv, dumps>>

\* a caller that runs the generic form whatever the federated branch returned
RunsGenericAlways(done) == TRUE

\* "if not aad_done:" guards the generic form
RunsGeneric(done) == ~done

\* a form that is filled as soon as one of the two fields is visible
FieldsFoundEither(user_sel, pass_sel) == user_sel \/ pass_sel

\* "if not user_sel or not pass_sel: return False", negated
FieldsFound(user_sel, pass_sel) == user_sel /\ pass_sel

\* the two first_visible_selector probes of the generic form, as events
FieldProbes(user_sel, pass_sel) ==
  <<"generic">> \o (IF user_sel THEN <<"generic_user_visible">> ELSE <<>>)
                \o (IF pass_sel THEN <<"generic_pass_visible">> ELSE <<>>)

\* "if not aad_done: gen_ok = await generic_username_password_login(...)"
\* and the dump when it returns False
GenericLogin ==
  /\ pc = "after_aad"
  /\ IF ~RunsGeneric(aad_done)
     THEN pc' = "duo" /\ UNCHANGED <<url, gen_ok, trace, dumps, endv>>
     ELSE \E user_sel, pass_sel \in BOOLEAN :
            IF ~FieldsFound(user_sel, pass_sel)
            THEN \* a username or a password field is not visible
                 /\ gen_ok' = FALSE /\ pc' = "duo"
                 /\ DidAll(FieldProbes(user_sel, pass_sel))
                 /\ IF entry = "fetch" \/ cfg.debug_dump
                    THEN Dump("login_no_fields") ELSE UNCHANGED dumps
                 /\ UNCHANGED <<url, endv>>
            ELSE \/ \* filling the username fails
                    /\ DidAll(FieldProbes(user_sel, pass_sel))
                    /\ UNCHANGED <<url, gen_ok, dumps>>
                    /\ RaiseInSession("PlaywrightError")
                 \/ \* the password is filled, then the click or key press fails
                    /\ DidAll(FieldProbes(user_sel, pass_sel)
                              \o <<"generic_fill_user", "generic_fill_password">>)
                    /\ UNCHANGED <<url, gen_ok, dumps>>
                    /\ RaiseInSession("PlaywrightError")
                 \/ \* filled and submitted
                    /\ gen_ok' = TRUE /\ pc' = "duo"
                    /\ DidAll(FieldProbes(user_sel, pass_sel)
                              \o <<"generic_fill_user", "generic_fill_password",
                                   "generic_submit">>)
                    /\ \E u \in Landings : url' = u
                    /\ UNCHANGED <<dumps, endv>>
  /\ UNCHANGED <<runv, resv, state_file, aad_done, extv>>

\* a bridge that polls without having detected the iframe
HandleDuoPollsAlways ==
  /\ pc = "duo"
  /\ DidAll(<<"duo", "duo_poll", "duo_approved">>)
  /\ pc' = "goto_target" /\ UNCHANGED <<url, endv>>
  /\ UNCHANGED <<runv, resv, state_file, aad_done, gen_ok, extv, dumps>>

\* a two-factor wait that never gives up
HandleDuoWaitsForever == pc = "duo" /\ UNCHANGED vars

\* a two-factor wait whose timeout is not caught
HandleDuoTimeoutRaises ==
  /\ pc = "duo"
  /\ DidAll(<<"duo", "duo_iframe", "duo_poll", "duo_timeout">>)
  /\ UNCHANGED url /\ RaiseInSession("TimeoutError")
  /\ UNCHANGED <<runv, resv, state_file, aad_done, gen_ok, extv, dumps>>

\* handle_duo_iframe_if_present: only a timeout of the wait for the
\* iframe's removal is caught there
HandleDuo ==
  /\ pc = "duo"
  /\ \/ \* no iframe within the detection window
        /\ DidAll(<<"duo">>) /\ pc' = "goto_target" /\ UNCHANGED <<url, endv>>
     \/ \* iframe detected; a push button is clicked or none is; the iframe
        \* goes away or the wait times out
        /\ \E push \in {<<>>, <<"duo_push">>}, ending \in {"duo_approved", "duo_timeout"} :
             DidAll(<<"duo", "duo_iframe">> \o push \o <<"duo_poll", ending>>)
        /\ \E u \in {url} \cup Landings : url' = u
        /\ pc' = "goto_target" /\ UNCHANGED endv
     \/ \* the wait fails with an error other than a timeout
        /\ DidAll(<<"duo", "duo_iframe", "duo_poll">>)
        /\ UNCHANGED url /\ RaiseInSession("PlaywrightError")
  /\ UNCHANGED <<runv, resv, state_file, aad_done, gen_ok, extv, dumps>>

\* await page.goto(target_url, ...): main.run catches its timeout only
GotoTarget ==
  /\ pc = "goto_target"
  /\ \/ /\ \E u \in Landings : url' = u
        /\ pc' = IF entry = "fetch" THEN "nav" ELSE "verify_ui"
        /\ Did("goto_target") /\ UNCHANGED endv
     \/ /\ entry = "main"
        /\ pc' = "verify_ui" /\ Did("goto_target_timeout") /\ UNCHANGED <<url, endv>>
     \/ /\ UNCHANGED <<url, trace>> /\ RaiseInSession("PlaywrightError")
  /\ UNCHANGED <<runv, resv, state_file, aad_done, gen_ok, extv, dumps>>

\* nucore_client: "if 'facilities/nufab/orders' not in page.url": click the
\* first visible Orders link; then dump_debug(page, "after_orders")
NavToOrders ==
  /\ pc = "nav"
  /\ IF ~UrlContains(url, "facilities/nufab/orders")
     THEN \/ /\ UNCHANGED <<url, trace, endv>> /\ pc' = "persist" /\ Dump("after_orders")
          \/ /\ \E u \in Landings : url' = u
             /\ Did("nav_click") /\ pc' = "persist" /\ Dump("after_orders")
             /\ UNCHANGED endv
          \/ /\ UNCHANGED <<url, trace, dumps>> /\ RaiseInSession("PlaywrightError")
     ELSE UNCHANGED <<url, trace, endv>> /\ pc' = "persist" /\ Dump("after_orders")
  /\ UNCHANGED <<runv, resv, state_file, aad_done, gen_ok, extv>>

\* main.run: look for the Orders UI, dump when it is not there.  The CSV
\* download that follows catches every exception and touches only the
\* output file.
VerifyOrdersUi ==
  /\ pc = "verify_ui"
  /\ \/ UNCHANGED dumps
     \/ IF cfg.debug_dump THEN Dump("orders_page_check_failed") ELSE UNCHANGED dumps
  /\ pc' = "persist"
  /\ UNCHANGED <<runv, resv, logv, extv, endv, trace>>

\* "if persist_storage_after_login and storage_path": a failing write is
\* swallowed
PersistStorage ==
  /\ pc = "persist"
  /\ IF cfg.persist
     THEN \/ state_file' = TRUE /\ Did("storage_written")
          \/ UNCHANGED <<state_file, trace>>
     ELSE UNCHANGED <<state_file, trace>>
  /\ pc' = IF entry = "fetch" THEN "exit_pw" ELSE "print"
  /\ UNCHANGED <<runv, resv, url, aad_done, gen_ok, extv, endv, dumps>>

\* main.run: the final dump (save_screenshot at its default, true), the
\* printing (its exceptions are caught), then context.close() and
\* browser.close()
PrintAndClose ==
  /\ pc = "print"
  /\ \E err \in {<<>>, IF cfg.debug_dump THEN <<"final_print_error">> ELSE <<>>} :
       dumps' = dumps \o <<"after_orders">> \o err
  /\ \/ /\ context' = "closed" /\ page' = "closed" /\ browser' = "closed"
        /\ UNCHANGED exc
     \/ /\ context' = "closed" /\ page' = "closed" /\ UNCHANGED browser
        /\ exc' = "PlaywrightError"
     \/ /\ UNCHANGED <<context, page, browser>> /\ exc' = "PlaywrightError"
  /\ pc' = "exit_pw"
  /\ UNCHANGED <<runv, driver, handles, logv, extv, outcome, ret, trace>>

\* a driver whose end leaves the browser running
DriverLeavesOpen(r) == r

\* what stopping the driver does to the browser it launched
DriverTeardown(r) == IF r = "open" THEN "closed" ELSE r

\* the end of the async-with block, by return or by exception: the driver
\* is stopped and with it the browser, its contexts and pages
ExitPlaywright ==
  /\ pc = "exit_pw"
  /\ driver' = "stopped"
  /\ browser' = DriverTeardown(browser)
  /\ context' = DriverTeardown(context)
  /\ page' = DriverTeardown(page)
  /\ IF entry = "fetch"
     THEN /\ handles' = (exc = "none")
          /\ pc' = IF exc = "none" THEN "count_tables" ELSE "finally"
          /\ UNCHANGED outcome
     ELSE /\ UNCHANGED handles
          /\ pc' = "done"
          /\ outcome' = IF exc = "none" THEN "returned" ELSE "raised"
  /\ UNCHANGED <<runv, logv, extv, exc, ret, trace, dumps>>

(***************************************************************************)
(* fetch_new_orders after login_and_open_orders has returned.  The page    *)
(* handle it queries was created in an async-with block that has already   *)
(* exited: each query on it either fails or is answered, both are          *)
(* explored.                                                               *)
(***************************************************************************)
\* an exception inside the try block of fetch_new_orders
RaiseInFetch(e) == pc' = "finally" /\ exc' = e /\ UNCHANGED <<outcome, ret>>

\* "return value" inside the try block of fetch_new_orders
ReturnFromFetch(value) == pc' = "finally" /\ ret' = value /\ UNCHANGED <<outcome, exc>>

\* table_count = await page.locator("table").count()
CountTables ==
  /\ pc = "count_tables"
  /\ Did("count_tables")
  /\ \/ /\ \E dom \in Pages(lim.tables) :
             tables' = dom /\ table_count' = Len(dom)
        /\ i' = 0 /\ target_idx' = None /\ header_map' = <<>>
        /\ pc' = "scan" /\ UNCHANGED endv
     \/ /\ UNCHANGED <<tables, table_count, i, target_idx, header_map>>
        /\ RaiseInFetch("PlaywrightError")
  /\ UNCHANGED <<runv, resv, logv, body, idx_order, idx_order_detail, idx_product,
                 idx_status, n, tds, rows, dumps>>

\* one iteration of "for i in range(table_count)"
ScanTable ==
  /\ pc = "scan" /\ i < table_count
  /\ \/ /\ UNCHANGED <<i, target_idx, header_map>>
        /\ RaiseInFetch("PlaywrightError")
     \/ LET ths == HeaderTexts(tables, i + 1)
        IN IF HeaderPredicate(ths)
           THEN /\ target_idx' = i + 1
                /\ header_map' = BuildHeaderMap(ths)
                /\ pc' = "resolve" /\ UNCHANGED <<i, endv>>
           ELSE /\ i' = i + 1
                /\ UNCHANGED <<target_idx, header_map, pc, endv>>
  /\ UNCHANGED <<runv, resv, logv, tables, body, table_count, idx_order,
                 idx_order_detail, idx_product, idx_status, n, tds, rows, trace, dumps>>

\* "if target_idx is None": dump and return []
TableNotFound ==
  /\ pc = "scan" /\ i >= table_count
  /\ Dump("orders_table_not_found")
  /\ ReturnFromFetch(<<>>)
  /\ UNCHANGED <<runv, resv, logv, extv, trace>>

\* the four col_idx lookups; "if None in (...)": dump and return []
ResolveColumns ==
  /\ pc = "resolve"
  /\ idx_order' = col_idx(header_map, W_order)
  /\ idx_order_detail' = col_idx(header_map, W_order_detail)
  /\ idx_product' = col_idx(header_map, W_product)
  /\ idx_status' = col_idx(header_map, W_status)
  /\ IF None \in {idx_order', idx_order_detail', idx_product', idx_status'}
     THEN Dump("orders_missing_columns") /\ ReturnFromFetch(<<>>) /\ UNCHANGED rows
     ELSE rows' = <<>> /\ pc' = "count_rows" /\ UNCHANGED <<dumps, endv>>
  /\ UNCHANGED <<runv, resv, logv, tables, body, table_count, i, target_idx,
                 header_map, n, tds, trace>>

\* trs = page.locator("table:nth-of-type(target_idx) tbody tr"); n = await trs.count()
CountRows ==
  /\ pc = "count_rows"
  /\ \/ /\ \E b \in SeqsUpTo(RowPool, lim.rows) : body' = b /\ n' = Len(b)
        /\ i' = 0 /\ pc' = "rows" /\ UNCHANGED endv
     \/ /\ UNCHANGED <<body, n, i>> /\ RaiseInFetch("PlaywrightError")
  /\ UNCHANGED <<runv, resv, logv, tables, table_count, target_idx, header_map,
                 idx_order, idx_order_detail, idx_product, idx_status, tds, rows,
                 trace, dumps>>

\* a page whose first body row answers every row query
RowAtFirst(b, r) == b[1]

\* trs.nth(r).locator("td").all_inner_texts(): the cells of body row r
RowAt(b, r) == b[r + 1]

\* a list that keeps one record per distinct value
AppendRecordUnique(rs, rec) ==
  IF \E k \in 1..Len(rs) : rs[k] = rec THEN rs ELSE Append(rs, rec)

\* rows.append({...})
AppendRecord(rs, rec) == Append(rs, rec)

\* one iteration of "for i in range(n)": read the cells of row i, then the
\* body of the loop
ExtractRow ==
  /\ pc = "rows" /\ i < n
  /\ \/ /\ UNCHANGED <<tds, i, rows>> /\ RaiseInFetch("PlaywrightError")
     \/ LET cells == RowAt(body, i)
            step == RowStep(cells, idx_order, idx_order_detail, idx_product, idx_status)
        IN /\ tds' = cells
           /\ IF step.kind = "raise"
              THEN UNCHANGED <<i, rows>> /\ RaiseInFetch("IndexError")
              ELSE /\ i' = i + 1
                   /\ rows' = IF step.kind = "emit"
                              THEN AppendRecord(rows, step.rec) ELSE rows
                   /\ UNCHANGED <<pc, endv>>
  /\ UNCHANGED <<runv, resv, logv, tables, body, table_count, target_idx, header_map,
                 idx_order, idx_order_detail, idx_product, idx_status, n, trace, dumps>>

\* dump_debug(page, "after_orders_parse"); return rows
ReturnRows ==
  /\ pc = "rows" /\ i >= n
  /\ Dump("after_orders_parse")
  /\ ReturnFromFetch(rows)
  /\ UNCHANGED <<runv, resv, logv, extv, trace>>

\* r after close() was called on it
Close(r) == IF r = "open" THEN "closed" ELSE r

\* finally: page.close(), context.close(), browser.close() on the locals
\* that are bound; the first close that fails ends the block, the failure
\* is swallowed
Finally ==
  /\ pc = "finally"
  /\ IF handles
     THEN \E done \in 0..3 :
            /\ page' = IF done >= 1 THEN Close(page) ELSE page
            /\ context' = IF done >= 2 THEN Close(context) ELSE context
            /\ browser' = IF done >= 3 THEN Close(browser) ELSE browser
     ELSE UNCHANGED <<page, context, browser>>
  /\ pc' = "done"
  /\ outcome' = IF exc = "none" THEN "returned" ELSE "raised"
  /\ UNCHANGED <<runv, driver, handles, logv, extv, exc, ret, trace, dumps>>

(***************************************************************************)
(* Specifications.                                                         *)
(***************************************************************************)
\* the extractor of fetch_new_orders
NextExtract ==
  \/ CountTables \/ ScanTable \/ TableNotFound \/ ResolveColumns
  \/ CountRows \/ ExtractRow \/ ReturnRows \/ Finally

\* a whole run of fetch_new_orders or of main.run
Next ==
  \/ CheckCredentials \/ LaunchBrowser \/ NewContext \/ StoredStateGoto
  \/ CheckAuth \/ GotoLogin \/ TryClickSsoEntry \/ AadCheck
  \/ MicrosoftAadLogin \/ GenericLogin \/ HandleDuo \/ GotoTarget
  \/ NavToOrders \/ VerifyOrdersUi \/ PersistStorage \/ PrintAndClose
  \/ ExitPlaywright \/ NextExtract

Spec == Init /\ [][Next]_vars

\* fetch_new_orders at the return of login_and_open_orders, after a login
\* through the generic form with nothing persisted
InitExtract ==
  /\ AppStart
  /\ entry = "fetch"
  /\ cfg = [creds |-> TRUE, use_storage |-> FALSE, persist |-> FALSE,
            debug_dump |-> TRUE]
  /\ lim = [tables |-> MaxTables, rows |-> MaxRows]
  /\ pc = "count_tables"
  /\ url = "nucore/facilities/nufab/orders"
  /\ driver = "stopped" /\ browser = "closed" /\ context = "closed" /\ page = "closed"
  /\ handles = TRUE
  /\ state_file = FALSE
  /\ aad_done = FALSE /\ gen_ok = TRUE
  /\ trace = <<"launch", "goto_login", "generic", "generic_user_visible",
               "generic_pass_visible", "generic_fill_user",
               "generic_fill_password", "generic_submit", "duo", "goto_target">>
  /\ dumps = <<"after_orders">>
  /\ outcome = "running" /\ exc = "none" /\ ret = <<>>
  /\ ExtractorStart

SpecExtract == InitExtract /\ [][NextExtract]_vars

\* the login flow of a run, up to the end of the async-with block: for
\* fetch_new_orders up to the return of login_and_open_orders or the
\* finally block that follows its exception, for main.run the whole run
NextLogin ==
  \/ CheckCredentials \/ LaunchBrowser \/ NewContext \/ StoredStateGoto
  \/ CheckAuth \/ GotoLogin \/ TryClickSsoEntry \/ AadCheck
  \/ MicrosoftAadLogin \/ GenericLogin \/ HandleDuo \/ GotoTarget
  \/ NavToOrders \/ VerifyOrdersUi \/ PersistStorage \/ PrintAndClose
  \/ ExitPlaywright \/ Finally

SpecLogin == Init /\ [][NextLogin]_vars

\* a run with every optional step switched on: stored state in use and
\* present, persistence and dumps enabled
InitLive ==
  /\ Init
  /\ cfg.use_storage /\ cfg.persist /\ cfg.debug_dump /\ state_file

\* every step of a run is one awaited call with its own timeout, or a
\* computation: a run that can take a step eventually takes one
SpecLive == InitLive /\ [][Next]_vars /\ WF_vars(Next)

(***************************************************************************)
(* app.py: the local store behind POST /import and                         *)
(* POST /orders/<key>/status.  The orders file is read and written whole   *)
(* by every request; its content is the dict store.  The values handled    *)
(* are Python str already, on which str() changes nothing.                 *)
(***************************************************************************)
\* rows a fetch may return in one import
MaxFetched == 2

S_New == C_New
S_InProcess == <<"I", "n", " ", "P", "r", "o", "c", "e", "s", "s">>
S_Canceled == <<"C", "a", "n", "c", "e", "l", "e", "d">>
S_Complete == C_Complete
S_Unrecoverable ==
  <<"U", "n", "r", "e", "c", "o", "v", "e", "r", "a", "b", "l", "e">>
ALLOWED_STATUSES == <<S_New, S_InProcess, S_Canceled, S_Complete, S_Unrecoverable>>

\* what the form field "status" may carry; <<>> also stands for a missing
\* field, which "or ''" turns into the empty string
F_padded == <<" ">> \o S_Complete \o <<" ">>
F_lower == <<"n", "e", "w">>
F_done == <<"D", "o", "n", "e">>
FormStatuses == {S_InProcess, S_Complete, F_padded, F_lower, F_done, <<>>}

\* records as fetch_new_orders returns them
O_1001 == <<"1", "0", "0", "1">>
O_2001 == <<"2", "0", "0", "1">>
O_1 == <<"1">>
O_1d2 == <<"1", "-", "2">>
O_2d3 == <<"2", "-", "3">>
O_3 == <<"3">>
Fetched(o, d, p) == [order |-> o, order_detail |-> d, product |-> p, status |-> S_New]
FetchedPool ==
  {Fetched(O_1001, O_2001, Strip(C_WA)), Fetched(O_1001, O_2001, C_W),
   Fetched(O_1d2, O_3, C_W), Fetched(O_1, O_2d3, Strip(C_WA))}

\* f"{order_id}-{order_detail_id}"
as_key(order_id, order_detail_id) == order_id \o <<"-">> \o order_detail_id

\* the keys a status request may name: those of the records above and one
\* that no record has
K_unknown == as_key(<<"9">>, <<"9">>)
KeyPool == {as_key(r.order, r.order_detail) : r \in FetchedPool} \cup {K_unknown}

\* d[key] = val on a Python dict
DictPut(d, key, val) == (key :> val) @@ d

\* a status test that lets every text through
StatusUnchecked(new_status) == TRUE

\* new_status in ALLOWED_STATUSES
StatusAllowed(new_status) == new_status \in Range(ALLOWED_STATUSES)

\* an import that starts from the stored records
InitialDataKept(orders) == orders

\* data: Dict[str, dict] = {}
InitialData(orders) == <<>>

\* the loop "for row in new_orders" of import_orders
RECURSIVE ImportRows(_, _)
ImportRows(data, new_orders) ==
  IF new_orders = <<>> THEN data
  ELSE LET row == Head(new_orders)
           key == as_key(row.order, row.order_detail)
       IN ImportRows(DictPut(data, key,
                             [key |-> key, order |-> row.order,
                              order_detail |-> row.order_detail,
                              product |-> row.product, local_status |-> S_New]),
                     Tail(new_orders))

\* GET /
Index ==
  /\ request' = [op |-> "index"] /\ http' = 200
  /\ UNCHANGED <<store, confv, resv, logv, extv, endv, pc, trace, dumps>>

\* POST /import: a failing load_config or fetch_new_orders ends the
\* request before anything is saved
ImportOrders ==
  /\ \/ \E new_orders \in SeqsUpTo(FetchedPool, MaxFetched) :
          /\ request' = [op |-> "import", rows |-> new_orders]
          /\ store' = ImportRows(InitialData(store), new_orders)
          /\ http' = 302
     \/ /\ request' = [op |-> "import_failed"]
        /\ http' = 500 /\ UNCHANGED store
  /\ UNCHANGED <<confv, resv, logv, extv, endv, pc, trace, dumps>>

\* POST /orders/<key>/status
UpdateStatus ==
  /\ \E key \in KeyPool, status \in FormStatuses :
       LET new_status == Strip(status)
       IN /\ request' = [op |-> "update", key |-> key, status |-> status]
          /\ IF key \notin DOMAIN store
             THEN http' = 404 /\ UNCHANGED store
             ELSE IF ~StatusAllowed(new_status)
             THEN http' = 400 /\ UNCHANGED store
             ELSE /\ store' = [store EXCEPT ![key].local_status = new_status]
                  /\ http' = 200
  /\ UNCHANGED <<confv, resv, logv, extv, endv, pc, trace, dumps>>

NextStore == Index \/ ImportOrders \/ UpdateStatus

\* the web application with no run in progress
InitStore ==
  /\ AppStart
  /\ entry = "fetch"
  /\ cfg = [creds |-> TRUE, use_storage |-> FALSE, persist |-> FALSE,
            debug_dump |-> TRUE]
  /\ lim = [tables |-> MaxRunTables, rows |-> MaxRunRows]
  /\ pc = "start" /\ url = "about:blank"
  /\ driver = "none" /\ browser = "none" /\ context = "none" /\ page = "none"
  /\ handles = FALSE /\ state_file = FALSE
  /\ aad_done = FALSE /\ gen_ok = FALSE
  /\ trace = <<>> /\ dumps = <<>>
  /\ outcome = "running" /\ exc = "none" /\ ret = <<>>
  /\ ExtractorStart

SpecStore == InitStore /\ [][NextStore]_vars

(***************************************************************************)
(* Properties.                                                             *)
(***************************************************************************)
InSeq(sq, x) == \E k \in 1..Len(sq) : sq[k] = x
Count(sq, x) == Cardinality({k \in 1..Len(sq) : sq[k] = x})

RequiredNames == {W_order, W_order_detail, W_product, W_status}

\* header cell c contains the name w, in any letter case
CellHasName(w, c) == Contains(w, Lower(c))

\* the header cells ths contain the four required names
HasAllNames(ths) ==
  \A w \in RequiredNames : \E k \in 1..Len(ths) : CellHasName(w, ths[k])

\* 0-based index of the first cell of ths that contains w
FirstCellWith(ths, w) ==
  LET hits == {k \in 1..Len(ths) : CellHasName(w, ths[k])}
  IN IF hits = {} THEN None ELSE SetMin(hits) - 1

\* the status cell of the row just read starts with "new", trimmed and in
\* any letter case
StatusIsNew(cells, is) ==
  /\ InRange(cells, is)
  /\ StartsWith(Lower(Strip(At(cells, is))), P_new)

\* rows are being extracted from a selected table
Extracting == pc \in {"count_rows", "rows"}

\* the step reads body row i and runs the loop body on it
ReadsRow == pc = "rows" /\ i < n /\ exc' # "PlaywrightError"

\* C1: a body row that is read and processed contributes a record to the
\* list if and only if its status cell, trimmed and lower-cased, starts
\* with "new"; the list returned is the list so built, so no row with
\* another status appears in it.
C1_StatusFilter ==
  [][(ReadsRow /\ i' = i + 1) =>
       IF StatusIsNew(tds', idx_status)
       THEN /\ Len(rows') = Len(rows) + 1
            /\ SubSeq(rows', 1, Len(rows)) = rows
            /\ rows'[Len(rows')].status = Strip(At(tds', idx_status))
       ELSE rows' = rows]_vars

\* C1 witness: two rows read, the first (" NEW order") kept, the second
\* ("Complete") dropped
C1_Witness ==
  /\ pc = "rows" /\ i = 2 /\ tds = R_done /\ idx_status = 3
  /\ Len(rows) = 1 /\ rows[1].status = Strip(C_NEWpad)

\* what a cell gives as an identifier: its first whitespace-delimited
\* token, or its trimmed text when it has none
IdOf(c) == IF HasToken(c) THEN FirstToken(c) ELSE Strip(c)

\* C2: in every emitted record the order id is the first token of the
\* row's order cell and the order-detail id the first token of its
\* order-detail cell, each field falling back to its trimmed text only
\* when its own cell has no token.
C2_IdsPerField ==
  [][(ReadsRow /\ Len(rows') = Len(rows) + 1) =>
       /\ rows'[Len(rows')].order = IdOf(At(tds', idx_order))
       /\ rows'[Len(rows')].order_detail = IdOf(At(tds', idx_order_detail))]_vars

\* C3: a header row that contains the four required names, in any letter
\* case and column order, is selected when it is probed, all four column
\* lookups resolve, and the "required columns not found" return is never
\* taken.
C3_HeadersResolve ==
  /\ \A m \in 1..table_count :
       (pc = "scan" /\ m <= i) => ~HasAllNames(HeaderTexts(tables, m))
  /\ target_idx # None =>
       /\ HasAllNames(HeaderTexts(tables, target_idx))
       /\ \A w \in RequiredNames : col_idx(header_map, w) # None
  /\ Extracting => None \notin {idx_order, idx_order_detail, idx_product, idx_status}
  /\ ~InSeq(dumps, "orders_missing_columns")
  /\ InSeq(dumps, "orders_table_not_found") =>
       \A k \in 1..Len(tables) : ~HasAllNames(tables[k].ths)

\* C3 witness: the permuted, upper-case header row is selected and resolved
C3_Witness ==
  /\ pc = "count_rows"
  /\ tables = <<[parent |-> "body", ths |-> HR_perm]>>
  /\ idx_order = 2 /\ idx_order_detail = 3 /\ idx_product = 1 /\ idx_status = 0

\* C4: whenever rows are extracted, the four resolved column indices are
\* pairwise distinct.
C4_DistinctColumns ==
  Extracting =>
    Cardinality({idx_order, idx_order_detail, idx_product, idx_status}) = 4

\* the cells of a row do not cover the four resolved column indices
ShortRow(cells) ==
  \E k \in {idx_order, idx_order_detail, idx_product, idx_status} : ~InRange(cells, k)

\* C5: a body row whose cells do not cover the four resolved indices is
\* skipped: no record, no exception, the loop goes on.
C5_ShortRowSkipped ==
  [][(ReadsRow /\ ShortRow(tds')) =>
       (pc' = "rows" /\ i' = i + 1 /\ rows' = rows /\ exc' = "none")]_vars

\* C6: the rows are extracted from one table, the first in document order
\* whose own header cells contain the four names.
C6_FirstQualifyingTable ==
  Extracting =>
    LET own == {k \in 1..Len(tables) : HasAllNames(tables[k].ths)}
    IN own # {} /\ NthOfType(tables, target_idx) = {SetMin(own)}

\* C7: when no table of the page has the four names in its header, the
\* run returns the empty list, without raising, after exactly one dump
\* labelled for the table-not-found case.
C7_NoTableEmptyResult ==
  (/\ pc = "done" /\ InSeq(trace, "count_tables") /\ exc # "PlaywrightError"
   /\ \A k \in 1..Len(tables) : ~HasAllNames(tables[k].ths))
  => /\ outcome = "returned" /\ ret = <<>>
     /\ Count(dumps, "orders_table_not_found") = 1

\* C8: each logical column is mapped to the lowest index of a header cell
\* that contains its name.
C8_FirstCellWins ==
  Extracting =>
    LET ths == HeaderTexts(tables, target_idx)
    IN /\ idx_order = FirstCellWith(ths, W_order)
       /\ idx_order_detail = FirstCellWith(ths, W_order_detail)
       /\ idx_product = FirstCellWith(ths, W_product)
       /\ idx_status = FirstCellWith(ths, W_status)

\* C9: in a run where the federated branch is attempted (the URL after the
\* SSO probe contains login.microsoftonline.com), the generic
\* username/password branch is not executed, whatever the federated branch
\* returns.
C9_GenericSkippedAfterAad == InSeq(trace, "aad") => ~InSeq(trace, "generic")

\* C10: when a run that launched a browser has ended, by return or by
\* exception, the browser, its context and its page are closed.
C10_BrowserReleased ==
  (pc = "done" /\ InSeq(trace, "launch")) =>
    (browser = "closed" /\ context # "open" /\ page # "open")

\* C10 witness: an exception in the login flow ended a fetch_new_orders run
\* whose locals were never bound, and the browser is closed
C10_Witness ==
  /\ pc = "done" /\ entry = "fetch" /\ outcome = "raised"
  /\ InSeq(trace, "goto_login") /\ exc = "PlaywrightError"
  /\ ~handles /\ browser = "closed" /\ context = "closed" /\ page = "closed"

\* C11: a run ends with an error only for a configuration error (missing
\* credentials) or a failed browser launch; every failure of a DOM
\* interaction or navigation is recovered and the run returns a result.
C11_OnlyFatalErrorsEndRun ==
  (outcome \in {"raised", "exited"} /\ page # "none") =>
    exc \in {"RuntimeError", "SystemExit2", "LaunchError"}

\* C12: with the username or the password missing, the run ends with an
\* error (RuntimeError from fetch_new_orders, exit code 2 from main.run),
\* and no driver, browser, context or page is ever created and nothing is
\* navigated.
C12_NoBrowserWithoutCredentials ==
  ~cfg.creds =>
    /\ driver = "none" /\ browser = "none" /\ context = "none" /\ page = "none"
    /\ trace = <<>> /\ dumps = <<>> /\ url = "about:blank"
    /\ pc \in {"start", "finally", "done"}
    /\ pc = "done" =>
         /\ outcome = (IF entry = "fetch" THEN "raised" ELSE "exited")
         /\ exc = (IF entry = "fetch" THEN "RuntimeError" ELSE "SystemExit2")

\* C12 witness: main.run has exited with code 2 for missing credentials
C12_Witness ==
  /\ ~cfg.creds /\ entry = "main" /\ pc = "done"
  /\ outcome = "exited" /\ exc = "SystemExit2" /\ browser = "none"

Last(sq) == sq[Len(sq)]

\* the generic form ran in this step and found at most one of its two fields
GenericFindsNoForm ==
  /\ pc = "after_aad"
  /\ trace' \in {trace \o <<"generic">>,
                 trace \o <<"generic", "generic_user_visible">>,
                 trace \o <<"generic", "generic_pass_visible">>}

\* C13: when the generic form finds no visible username field or no
\* visible password field, it returns False without raising and without
\* filling or submitting anything; the caller requests the
\* "login_no_fields" dump (main.run: when debug_dump is set) and the run
\* goes on to the two-factor bridge, after which comes the target
\* navigation.
C13_NoFieldsNotApplicable ==
  [][/\ GenericFindsNoForm =>
          /\ gen_ok' = FALSE /\ exc' = "none" /\ url' = url
          /\ pc' = "duo"
          /\ (entry = "fetch" \/ cfg.debug_dump) =>
               dumps' = Append(dumps, "login_no_fields")
     /\ (pc = "duo" /\ exc' = "none") => pc' = "goto_target"]_vars

\* C13 witness: only the username field was visible; nothing was filled,
\* the dump was requested and the run went on to the target navigation
C13_Witness ==
  /\ entry = "fetch" /\ ~gen_ok /\ exc = "none"
  /\ InSeq(trace, "generic_user_visible") /\ ~InSeq(trace, "generic_pass_visible")
  /\ ~InSeq(trace, "generic_fill_user")
  /\ InSeq(dumps, "login_no_fields")
  /\ InSeq(trace, "duo") /\ InSeq(trace, "goto_target")

\* C14: when the two-factor iframe was detected and the wait for its
\* removal timed out, handle_duo_iframe_if_present returns without an
\* exception and the next step is the navigation to the target page.
C14_DuoTimeoutReturns ==
  [][/\ (pc = "duo" /\ trace' # trace /\ Last(trace') = "duo_timeout") =>
          (pc' = "goto_target" /\ exc' = "none")
     /\ (pc = "goto_target" /\ exc' = "none") =>
          Last(trace') \in {"goto_target", "goto_target_timeout"}]_vars

\* C14 witness: the wait timed out and the target page was navigated to
C14_Witness ==
  /\ InSeq(trace, "duo_timeout") /\ InSeq(trace, "goto_target")
  /\ pc = "done" /\ outcome = "returned"

\* C15: at most one login strategy reports that it handled the login, and
\* once the federated branch has returned True the generic branch is not
\* executed.
C15_AtMostOneHandled ==
  /\ ~(aad_done /\ gen_ok)
  /\ aad_done => ~InSeq(trace, "generic")

\* C15 witness: the federated branch handled the login of a finished run
C15_Witness ==
  /\ aad_done /\ ~gen_ok /\ InSeq(trace, "aad_submit")
  /\ pc = "done" /\ outcome = "returned"

\* C16: in a run where a login was required and no login strategy handled
\* the page, the authentication-state file is not written.
C16_StateFileOnlyAfterLogin ==
  (InSeq(trace, "goto_login") /\ ~aad_done /\ ~gen_ok) =>
    ~InSeq(trace, "storage_written")

\* what the login flow does to the browser
LoginEvents ==
  {"goto_login", "sso_click", "aad", "aad_fill_user", "aad_fill_password",
   "aad_submit", "aad_kmsi_error", "aad_wait_error", "generic", "generic_user_visible", "generic_pass_visible",
   "generic_fill_user", "generic_fill_password", "generic_submit",
   "duo", "duo_iframe", "duo_push", "duo_poll", "duo_approved", "duo_timeout"}

LoginPositions == {"goto_login", "sso", "aad_check", "aad", "after_aad", "duo"}

\* C17: the login flow is entered if and only if, after the optional
\* stored-state navigation, the URL contains the login path or is the
\* blank start page; it is always entered when no stored state was loaded,
\* it is entered from nowhere else, and no step of it happens outside it.
C17_LoginIffRequired ==
  [][/\ pc = "check_auth" =>
          /\ pc' = "goto_login" <=>
               (UrlContains(url, "users/sign_in") \/ url = "about:blank")
          /\ pc' # "goto_login" => pc' = "goto_target"
          /\ ~(cfg.use_storage /\ state_file) => pc' = "goto_login"
     /\ (pc' = "goto_login" /\ pc # "goto_login") => pc = "check_auth"
     /\ (pc' \in LoginPositions /\ pc \notin LoginPositions) => pc' = "goto_login"
     /\ (trace' # trace /\ Last(trace') \in LoginEvents) => pc \in LoginPositions]_vars

\* C17 witness: the stored-state navigation landed on the orders page and
\* the run went to the target without any step of the login flow
C17_Witness ==
  /\ InSeq(trace, "stored_goto") /\ InSeq(trace, "goto_target")
  /\ \A k \in 1..Len(trace) : trace[k] \notin LoginEvents
  /\ pc = "done" /\ outcome = "returned"

\* C18: the records are in the order of their rows and nothing is
\* deduplicated: the list only ever grows by one record at its end, taken
\* from the row just read; every row read with a status "new" adds one,
\* whatever the list already holds; the list returned is the list so built.
C18_OrderKeptNoDedup ==
  [][/\ \/ rows' = rows
        \/ /\ pc = "rows" /\ i < n /\ i' = i + 1
           /\ Len(rows') = Len(rows) + 1
           /\ SubSeq(rows', 1, Len(rows)) = rows
           /\ Last(rows').product = Strip(At(body[i + 1], idx_product))
           /\ Last(rows').status = Strip(At(body[i + 1], idx_status))
     /\ (pc = "rows" /\ i < n /\ i' = i + 1 /\ StatusIsNew(body[i + 1], idx_status)) =>
          Len(rows') = Len(rows) + 1
     /\ (pc = "rows" /\ pc' = "finally" /\ exc' = "none") => ret' = rows]_vars

\* C18 witness: two equal rows with status "new" gave two equal records
C18_Witness ==
  /\ pc = "done" /\ outcome = "returned"
  /\ Len(body) = 2 /\ body[1] = body[2]
  /\ Len(ret) = 2 /\ ret[1] = ret[2]

\* the table a page's headers select: the first index whose header texts
\* pass the header test
SelectedTable(tabs) ==
  LET q == {m \in 1..Len(tabs) : HeaderPredicate(HeaderTexts(tabs, m))}
  IN IF q = {} THEN None ELSE SetMin(q)

\* the records of the body rows b under the column indices, in row order
RECURSIVE RecordsOf(_, _, _, _, _)
RecordsOf(b, io, id, ip, is) ==
  IF b = <<>> THEN <<>>
  ELSE LET step == RowStep(Head(b), io, id, ip, is)
       IN (IF step.kind = "emit" THEN <<step.rec>> ELSE <<>>)
          \o RecordsOf(Tail(b), io, id, ip, is)

\* the list of records as a function of the page content alone
ExtractionOf(tabs, b) ==
  LET m == SelectedTable(tabs)
  IN IF m = None THEN <<>>
     ELSE LET hm == BuildHeaderMap(HeaderTexts(tabs, m))
              io == col_idx(hm, W_order)
              id == col_idx(hm, W_order_detail)
              ip == col_idx(hm, W_product)
              is == col_idx(hm, W_status)
          IN IF None \in {io, id, ip, is} THEN <<>>
             ELSE RecordsOf(b, io, id, ip, is)

\* C19: extraction is deterministic and idempotent: the list a run returns
\* is a function of the content of the page (its tables and body rows)
\* and of nothing else, so two runs against the same page return the same
\* ordered list.
C19_ExtractionDeterministic ==
  (pc = "done" /\ outcome = "returned") => ret = ExtractionOf(tables, body)

\* C19 witness: a page with two different rows, one of them "new", was
\* extracted to one record
C19_Witness ==
  /\ pc = "done" /\ outcome = "returned"
  /\ Len(body) = 2 /\ body[1] # body[2] /\ Len(ret) = 1

\* C20: every run terminates: it reaches a returned result or a raised
\* error.
C20_RunTerminates ==
  <>(pc = "done" /\ outcome \in {"returned", "raised", "exited"})

\* C20 witness: a fetch_new_orders run whose two-factor wait timed out has
\* returned its records
C20_Witness ==
  /\ entry = "fetch" /\ pc = "done" /\ outcome = "returned"
  /\ InSeq(trace, "duo_timeout") /\ Len(ret) = 1

\* the events a, b, c occur in the sequence in this order
InOrder(sq, a, b, c) ==
  \E x, y, z \in 1..Len(sq) :
    x < y /\ y < z /\ sq[x] = a /\ sq[y] = b /\ sq[z] = c

\* C21: in every run that scans tables, the two-factor bridge was executed
\* before the navigation to the target page, and that navigation was
\* completed before the tables were counted.
C21_DuoThenTargetThenScan ==
  InSeq(trace, "count_tables") =>
    InOrder(trace, "duo", "goto_target", "count_tables")

\* the candidate of lowest list position among the visible ones
FirstInListOrder(visible, candidates) ==
  LET hits == {k \in 1..Len(candidates) : candidates[k] \in visible}
  IN IF hits = {} THEN <<>> ELSE <<candidates[SetMin(hits)]>>

\* C22: the SSO probe picks the first candidate, in list order, that is
\* visible, and none when none is; at most one click happens in a run and
\* only in the probe; a probe that clicks nothing raises nothing and
\* leaves the URL alone; the federated branch is then attempted exactly
\* when the URL holds the federated host, click or no click.
C22_SsoProbe ==
  /\ [](pc = "sso" =>
         \A visible \in SUBSET Range(SSO_CANDIDATES) :
           first_visible_selector(visible, SSO_CANDIDATES)
             = FirstInListOrder(visible, SSO_CANDIDATES))
  /\ [][/\ pc = "sso" =>
             /\ Count(trace', "sso_click") <= 1
             /\ (trace' = trace /\ exc' = "none") =>
                  (pc' = "aad_check" /\ url' = url)
        /\ Count(trace', "sso_click") > Count(trace, "sso_click") => pc = "sso"
        /\ pc = "aad_check" =>
             (pc' = "aad" <=> UrlContains(url, "login.microsoftonline.com"))]_vars

\* C22 witness: no candidate was clicked and the federated branch was
\* attempted, the login page itself being on the federated host
C22_Witness ==
  /\ InSeq(trace, "goto_login") /\ ~InSeq(trace, "sso_click")
  /\ InSeq(trace, "aad") /\ exc = "none"

\* what the step has added to the trace
NewEvents == SubSeq(trace', Len(trace) + 1, Len(trace'))

\* C23: no exception escapes microsoft_aad_login and the run goes on to
\* the next step; it returns True exactly when the credentials were
\* submitted and the final wait did not fail, a failure in the "stay
\* signed in" dialog changing nothing; in every other case (account field
\* not visible, password field not appearing, a failing fill or click) it
\* returns False.
C23_AadNeverRaises ==
  [][pc = "aad" =>
       /\ exc' = "none" /\ outcome' = outcome /\ pc' = "after_aad"
       /\ aad_done' <=>
            (InSeq(NewEvents, "aad_submit") /\ ~InSeq(NewEvents, "aad_wait_error"))]_vars

\* C23 witness: the "stay signed in" handling failed, the branch returned
\* True and the run went on
C23_Witness ==
  /\ InSeq(trace, "aad_kmsi_error") /\ aad_done
  /\ InSeq(trace, "duo") /\ exc = "none"

\* a before b wherever both occur in the sequence
Precedes(sq, a, b) ==
  \A x, y \in 1..Len(sq) : (sq[x] = a /\ sq[y] = b) => x < y

C25_ScanWhileSessionOpen ==
  (InSeq(trace, "count_tables") /\ pc # "done") => driver = "open"

\* C26: the password is typed into at most one login form in a run; once
\* the federated branch has filled and submitted the credentials the
\* generic form is not filled.
C26_PasswordTypedOnce ==
  InSeq(trace, "aad_submit") => ~InSeq(trace, "generic_fill_password")

AllowedSet == {S_New, S_InProcess, S_Canceled, S_Complete, S_Unrecoverable}

\* C27: every stored record has one of the five allowed statuses and is
\* stored under its own key, which is order + "-" + order_detail; a status
\* request for a key that is not stored answers 404, one with a status
\* that, trimmed, is not allowed answers 400, and both leave the store as
\* it was.
C27_StoreWellFormed ==
  /\ [](\A k \in DOMAIN store :
          /\ store[k].local_status \in AllowedSet
          /\ store[k].key = k
          /\ k = store[k].order \o <<"-">> \o store[k].order_detail)
  /\ [][request'.op = "update" =>
          /\ request'.key \notin DOMAIN store => (http' = 404 /\ store' = store)
          /\ (request'.key \in DOMAIN store
              /\ Strip(request'.status) \notin AllowedSet) =>
               (http' = 400 /\ store' = store)]_vars

\* C27 witness: a record was set to "Complete" by a padded form value and
\* a following request with a status that is not allowed was refused
C27_Witness ==
  /\ request = [op |-> "update", key |-> as_key(O_1001, O_2001), status |-> F_done]
  /\ http = 400
  /\ as_key(O_1001, O_2001) \in DOMAIN store
  /\ store[as_key(O_1001, O_2001)].local_status = S_Complete

\* the positions of the rows of new_orders that have the key k
RowsWithKey(new_orders, k) ==
  {a \in 1..Len(new_orders) :
     new_orders[a].order \o <<"-">> \o new_orders[a].order_detail = k}

\* C28: after an import the store holds exactly one record per distinct
\* key among the fetched rows, taken from the last row with that key and
\* with local_status "New"; nothing of the earlier store remains, also
\* when the fetch returned the empty list.
C28_ImportReplacesStore ==
  [][(request'.op = "import" /\ http' = 302) =>
       /\ DOMAIN store' =
            {request'.rows[a].order \o <<"-">> \o request'.rows[a].order_detail :
               a \in 1..Len(request'.rows)}
       /\ \A k \in DOMAIN store' :
            LET row == request'.rows[SetMax(RowsWithKey(request'.rows, k))]
            IN store'[k] = [key |-> k, order |-> row.order,
                           order_detail |-> row.order_detail,
                           product |-> row.product, local_status |-> S_New]]_vars

\* C28 witness: an import of two rows with the same key has left the one
\* record of the second row
C28_Witness ==
  /\ request = [op |-> "import",
                rows |-> <<Fetched(O_1001, O_2001, Strip(C_WA)),
                           Fetched(O_1001, O_2001, C_W)>>]
  /\ http = 302
  /\ DOMAIN store = {as_key(O_1001, O_2001)}
  /\ store[as_key(O_1001, O_2001)].product = C_W

====
